---- MODULE Spec2Model ----
(***************************************************************************)
(* The ingestion pipeline of app/ingestion/pipeline.py: process_source     *)
(* (checkpoint read, fetch, transform and filter, load, checkpoint         *)
(* update), the checkpoint store it shares with update_checkpoint, and     *)
(* the unified-data table it upserts into.                                 *)
(*                                                                         *)
(* One run of process_source is a chain of awaits on one session; the      *)
(* model gives one action per await and one per iteration of the           *)
(* transform loop.  Every database await either returns or raises.         *)
(* Python's None is NoTs for a timestamp and NoError for an error text.    *)
(* run_duration_ms and the Prometheus metrics are write-only and are not   *)
(* part of the state; detect_drift writes to the log only, so what the     *)
(* model keeps of it within a run is whether it returns or raises; the     *)
(* warnings it logs for a payload are modelled on their own (SpecDrift).   *)
(* run_etl is the pass over the configured sources.                        *)
(***************************************************************************)
EXTENDS Integers, Sequences, FiniteSets, Bags, TLC

\* ---------------------------------------------------------------- bounds
\* Longest list a fetch returns when the upstream is not pinned.
MaxFetch == 2
\* Longest upstream list of the pinned-upstream specification.
MaxStream == 3
\* Timestamps are 1..MaxTs.
MaxTs == 2
\* Records the runs of the two-source specification commit.
MaxMerges == 2

\* ------------------------------------------------------------- constants
\* Optional[datetime] = None
NoTs == 0
\* stop_after_attempt(5)
RetryAttempts == 5

Sources == {"s1"}
Ids == {"a"}
Timestamps == 1..MaxTs

\* ---------------------------------------------------------- error texts
\* str(e) of the exceptions a run can see.
NoError == ""
MsgChaos == "CHAOS_MODE_TRIGGERED: Simulated failure mid-stream"
MsgFetch == "Simulated API Connection Error"
MsgRetryError == "RetryError[<Future state=finished raised Exception>]"
MsgNoneLen == "object of type 'NoneType' has no len()"
MsgValidation == "'val'"
MsgValidationChaos == "Invalid isoformat string: 'CHAOS'"
MsgDb == "connection is closed"
MsgDrift == "'CryptoUnifiedData' object has no attribute 'keys'"
MsgCsv == "[Errno 13] Permission denied: 'data/source.csv'"

\* "CHAOS" in str(e), tabulated over the texts above.
ContainsCHAOS(msg) == msg \in {MsgChaos, MsgValidationChaos}

\* "CHAOS_MODE_TRIGGERED" in error_log, as the chaos test asserts.
MentionsInjectedFault(msg) == msg \in {MsgChaos}

\* The text of the exception the adapter's own attempt raised is part of msg.
ContainsFetchMessage(msg) == msg \in {MsgFetch}

\* ------------------------------------------------------------- records
\* The value every record of the tests' feeds carries.
Values == {100}

\* A raw record together with what normalize_func makes of it: fault is the
\* text of the exception normalize_func raises on it, NoError if it returns
\* a UnifiedDataCreate with this external_id, timestamp and value.  mapping
\* says whether the raw record is a dict (has keys()).
ValidRecords ==
    [id : Ids, ts : {NoTs} \cup Timestamps, value : Values,
     fault : {NoError}, mapping : {TRUE}]
InvalidRecords ==
    [id : {"a"}, ts : {NoTs}, value : Values,
     fault : {MsgValidation, MsgValidationChaos}, mapping : {TRUE}]
\* A raw record that is an object, not a dict, and that normalize_func accepts.
OpaqueRecords ==
    [id : {"a"}, ts : {NoTs}, value : Values, fault : {NoError}, mapping : {FALSE}]
Records == ValidRecords \cup InvalidRecords \cup OpaqueRecords

\* The UnifiedDataCreate normalize_func returns for rec.
Unified(rec) == [id |-> rec.id, ts |-> rec.ts, value |-> rec.value]

RECURSIVE SeqsUpTo(_, _)
SeqsUpTo(S, n) ==
    IF n = 0 THEN {<<>>}
    ELSE LET shorter == SeqsUpTo(S, n - 1)
         IN shorter \cup {Append(q, x) : q \in {p \in shorter : Len(p) = n - 1}, x \in S}

\* --------------------------------------------------------------- tables
\* etl_checkpoints row (EtlCheckpoint); last_status "none" is the missing row.
NoCheckpoint ==
    [last_status |-> "none", records_processed |-> 0,
     error_log |-> NoError, last_ingested_timestamp |-> NoTs]

\* unified_data is a bag of rows [id, ts, value]: the table as the
\* statements leave it, a row as many times as it was inserted.
NoRows == EmptyBag

\* How fetch_func is wrapped: "plain" (no retry), "retry" (@retry, RetryError
\* on exhaustion), "retry_callback" (@retry with retry_error_callback).
FetchKinds == {"plain", "retry", "retry_callback"}

VARIABLES
    chaos,          \* settings.CHAOS_MODE
    chaos_at_filter,\* history: settings.CHAOS_MODE when the loop of the run began
    db_cp,          \* committed etl_checkpoints, by source_name
    db_data,        \* committed unified_data, by external_id
    sess_data,      \* unified_data as the open session's transaction sees it
    upstream,       \* the feed: pinned list, or not pinned; for the file
                    \* source, also the state of its file
    pc,             \* where process_source is
    src,            \* source_name of the run
    kind,           \* how fetch_func is wrapped
    attempt,        \* tenacity's attempt_number
    last_ingested,  \* process_source: last_ingested
    total_records,  \* process_source: total_records
    idx,            \* number of raw_records the loop has consumed
    new_records,    \* process_source: new_records
    processed_count,\* process_source: processed_count
    max_ts,         \* process_source: max_ts
    loaded,         \* number of new_records already executed on the session
    err,            \* str(e) of the exception the outer except caught
    drift_calls,    \* number of detect_drift calls of the run
    drift_log,      \* the last call of detect_drift: its payload's keys and
                    \* the warnings it logged
    cp_rows,        \* committed etl_checkpoints: number of rows, by source_name
    etl,            \* where run_etl is
    merge_log,      \* history: the records committed, each with its source
    cp_before,      \* history: the source's committed checkpoint when the run began
    data_before,    \* history: db_data when the run began
    hwm_hist        \* history: greatest timestamp recorded by the successful
                    \* runs that ended before the current one began, by source

vars ==
    <<chaos, chaos_at_filter, db_cp, db_data, sess_data, upstream, pc, src,
      kind, attempt,
      last_ingested, total_records, idx, new_records, processed_count, max_ts,
      loaded, err, drift_calls, drift_log, cp_rows, etl, merge_log,
      cp_before, data_before, hwm_hist>>

runVars ==
    <<src, kind, attempt, last_ingested, total_records, idx, new_records,
      processed_count, max_ts, loaded, err, drift_calls>>

loopVars ==
    <<total_records, idx, new_records, processed_count, max_ts, drift_calls>>

history == <<cp_before, data_before, hwm_hist>>

Ended == pc \in {"idle", "succeeded", "failed", "raised"}

\* run_etl has not been called.
EtlOff == [st |-> "off", pos |-> 0]

\* detect_drift has not been called.
NoDriftCall == [called |-> FALSE, keys |-> {}, events |-> {}]

\* ----------------------------------------------------------------- Init
\* Empty tables, no run yet; srcs are the sources that will be run.
InitFor(srcs) ==
    /\ chaos = FALSE
    /\ chaos_at_filter = FALSE
    /\ db_cp = [s \in srcs |-> NoCheckpoint]
    /\ cp_rows = [s \in srcs |-> 0]
    /\ db_data = NoRows
    /\ sess_data = NoRows
    /\ pc = "idle"
    /\ src = CHOOSE s \in srcs : TRUE
    /\ etl = EtlOff
    /\ merge_log = <<>>
    /\ drift_calls = 0
    /\ drift_log = NoDriftCall
    /\ kind = "plain"
    /\ attempt = 0
    /\ last_ingested = NoTs
    /\ total_records = 0
    /\ idx = 0
    /\ new_records = <<>>
    /\ processed_count = 0
    /\ max_ts = NoTs
    /\ loaded = 0
    /\ err = NoError
    /\ cp_before = NoCheckpoint
    /\ data_before = NoRows
    /\ hwm_hist = [s \in srcs |-> NoTs]

InitCommon == InitFor(Sources)

Init ==
    /\ InitCommon
    /\ upstream = [pinned |-> FALSE, recs |-> <<>>]

\* The same list is served to every fetch of the behaviour.
InitPinned ==
    /\ InitCommon
    /\ upstream \in [pinned : {TRUE}, recs : SeqsUpTo(Records, MaxStream)]

\* ------------------------------------------------------- pure functions
\* process_source line 165: the timestamp the filter uses.
LastIngested(cp) ==
    IF cp.last_status = "success" THEN cp.last_ingested_timestamp ELSE NoTs

\* One attempt more than the policy allows.
AttemptLimitOneMore(k) == IF k = "plain" THEN 1 ELSE RetryAttempts + 1

\* stop_after_attempt(5) on the wrapped adapters, a single call otherwise.
AttemptLimit(k) == IF k = "plain" THEN 1 ELSE RetryAttempts

\* What the await of fetch_func ends with once every attempt has raised:
\* the adapter's exception; tenacity's RetryError (reraise is not set); or,
\* with retry_error_callback, the callback's None as the return value, on
\* which len(raw_records) raises TypeError.
ExhaustedText(k) ==
    CASE k = "plain" -> MsgFetch
      [] k = "retry" -> MsgRetryError
      [] k = "retry_callback" -> MsgNoneLen

\* The filter taking a missing timestamp for an old one.
FilteredNoneIsOld(last, ts) == last # NoTs /\ (ts = NoTs \/ ts <= last)

\* The filter with a strict comparison.
FilteredStrictly(last, ts) == last # NoTs /\ ts # NoTs /\ ts < last

\* Line 193: the incremental filter.
Filtered(last, ts) == last # NoTs /\ ts # NoTs /\ ts <= last

\* Line 200: processed_count > (total_records / 2), true division.
ChaosTriggers(mode, count, total) == mode /\ 2 * count > total

\* The running maximum replaced by the latest timestamp.
NewMaxLatest(cur, ts) == IF ts # NoTs THEN ts ELSE cur

\* Lines 203-205: the running maximum.
NewMax(cur, ts) ==
    IF ts # NoTs /\ (cur = NoTs \/ ts > cur) THEN ts ELSE cur

\* Line 183: detect_drift is called while no record has been accepted.
DriftChecked(count) == count = 0

\* detect_drift, lines 12-37: payload.keys() raises on a raw record that is
\* not a dict; on a dict it logs or not and returns.
DetectDrift(rec) == IF rec.mapping THEN NoError ELSE MsgDrift

\* Line 208: the inner except re-raises on the text alone.
Reraised(msg) == ContainsCHAOS(msg)

\* ON CONFLICT DO NOTHING: the stored row wins.
UpsertKeepsOld(table, u) ==
    IF \E r \in BagToSet(table) : r.id = u.id
    THEN table
    ELSE table (+) SetToBag({u})

\* The insert without its ON CONFLICT clause.
UpsertInsertOnly(table, u) == table (+) SetToBag({u})

\* Lines 215-230: INSERT ... ON CONFLICT (external_id) DO UPDATE: the rows
\* under u's external_id become the one row u, the other rows stay.
Upsert(table, u) ==
    LET others == {r \in BagToSet(table) : r.id # u.id}
    IN [r \in others |-> table[r]] (+) SetToBag({u})

\* update_checkpoint, lines 46-61: overwrite in place, or insert.
UpdateCheckpoint(cp, status, records, error, last_ts) ==
    IF cp.last_status # "none"
    THEN [cp EXCEPT !.last_status = status,
                    !.records_processed = records,
                    !.error_log = error,
                    !.last_ingested_timestamp = last_ts]
    ELSE [last_status |-> status, records_processed |-> records,
          error_log |-> error, last_ingested_timestamp |-> last_ts]

\* update_checkpoint adding a row whether or not the select found one.
RowsAfterInsert(cp, rows) == rows + 1

\* update_checkpoint, lines 43-61: the row count of the source after it;
\* session.add inserts a row only when the select found none.
RowsAfterUpdate(cp, rows) == IF cp.last_status # "none" THEN rows ELSE rows + 1

\* Line 248: session.rollback() discards the statements executed since the
\* last commit; the session sees the committed table again.
Rollback(committed, pending) == committed

\* The greatest timestamp among the records of a list, NoTs if none has one.
RECURSIVE MaxTsOf(_)
MaxTsOf(q) ==
    IF q = <<>> THEN NoTs
    ELSE LET m == MaxTsOf(Tail(q))
         IN IF Head(q).ts > m THEN Head(q).ts ELSE m

\* History: the checkpoint a run finds is the record of the run before it.
FoldHistory(hist, s, cp) ==
    [hist EXCEPT ![s] =
        IF cp.last_status = "success" /\ cp.last_ingested_timestamp > @
        THEN cp.last_ingested_timestamp ELSE @]

\* -------------------------------------------------------------- actions
\* The run filtering on the last high-water-mark a successful run recorded,
\* whatever the status of the run before it.
StartRunResumes(s, k, mode) ==
    /\ Ended
    /\ chaos' = mode
    /\ chaos_at_filter' = mode
    /\ pc' = "fetch"
    /\ src' = s
    /\ kind' = k
    /\ attempt' = 1
    /\ last_ingested' = FoldHistory(hwm_hist, s, db_cp[s])[s]
    /\ total_records' = 0
    /\ idx' = 0
    /\ new_records' = <<>>
    /\ processed_count' = 0
    /\ max_ts' = NoTs
    /\ loaded' = 0
    /\ err' = NoError
    /\ drift_calls' = 0
    /\ sess_data' = db_data
    /\ cp_before' = db_cp[s]
    /\ data_before' = db_data
    /\ hwm_hist' = FoldHistory(hwm_hist, s, db_cp[s])
    /\ UNCHANGED <<drift_log, db_cp, cp_rows, db_data, upstream, merge_log>>

\* Lines 159-165: open the session, read the checkpoint.  The caller's
\* arguments are the source and its fetch function; settings.CHAOS_MODE is
\* whatever the configuration (or a test's patch) set before the call.
StartRun(s, k, mode) ==
    /\ Ended
    /\ chaos' = mode
    /\ chaos_at_filter' = mode
    /\ pc' = "fetch"
    /\ src' = s
    /\ kind' = k
    /\ attempt' = 1
    /\ last_ingested' = LastIngested(db_cp[s])
    /\ total_records' = 0
    /\ idx' = 0
    /\ new_records' = <<>>
    /\ processed_count' = 0
    /\ max_ts' = NoTs
    /\ loaded' = 0
    /\ err' = NoError
    /\ drift_calls' = 0
    /\ sess_data' = db_data
    /\ cp_before' = db_cp[s]
    /\ data_before' = db_data
    /\ hwm_hist' = FoldHistory(hwm_hist, s, db_cp[s])
    /\ UNCHANGED <<drift_log, db_cp, cp_rows, db_data, upstream, merge_log>>

\* Line 164 is outside the try: a failing select leaves process_source.
GetCheckpointRaises(s) ==
    /\ Ended
    /\ pc' = "raised"
    /\ src' = s
    /\ kind' = "plain"
    /\ attempt' = 0
    /\ last_ingested' = NoTs
    /\ total_records' = 0
    /\ idx' = 0
    /\ new_records' = <<>>
    /\ processed_count' = 0
    /\ max_ts' = NoTs
    /\ loaded' = 0
    /\ err' = MsgDb
    /\ drift_calls' = 0
    /\ sess_data' = db_data
    /\ cp_before' = db_cp[s]
    /\ data_before' = db_data
    /\ hwm_hist' = FoldHistory(hwm_hist, s, db_cp[s])
    /\ UNCHANGED <<drift_log, chaos_at_filter, chaos, db_cp, cp_rows, db_data,
                   upstream, merge_log>>

\* One attempt of the adapter raises and tenacity calls it again.
FetchRetries ==
    /\ pc = "fetch"
    /\ attempt < AttemptLimit(kind)
    /\ attempt' = attempt + 1
    /\ UNCHANGED <<drift_log, chaos_at_filter, chaos, db_cp, cp_rows, db_data,
                   sess_data, upstream, etl, merge_log, pc, src, kind,
                   last_ingested, loopVars, loaded, err, history>>

\* The last attempt raises: line 169 or 170 raises into the outer except.
FetchFails ==
    /\ pc = "fetch"
    /\ attempt = AttemptLimit(kind)
    /\ pc' = "except"
    /\ err' = ExhaustedText(kind)
    /\ kind' = "plain"
    /\ UNCHANGED <<drift_log, chaos_at_filter, attempt, chaos, db_cp, cp_rows,
                   db_data, sess_data, upstream, etl, merge_log, src,
                   last_ingested, loopVars, loaded, history>>

\* Lines 169-178: fetch returns a list of n records.
FetchReturns(n) ==
    /\ pc = "fetch"
    /\ upstream.pinned => n = Len(upstream.recs)
    /\ total_records' = n
    /\ chaos_at_filter' = chaos
    /\ idx' = 0
    /\ new_records' = <<>>
    /\ processed_count' = 0
    /\ max_ts' = last_ingested
    /\ drift_calls' = 0
    /\ pc' = IF n = 0 THEN "load" ELSE "transform"
    /\ kind' = "plain"
    /\ attempt' = 0
    /\ UNCHANGED <<drift_log, chaos, db_cp, cp_rows, db_data, sess_data,
                   upstream, etl, merge_log, src, last_ingested, loaded, err,
                   history>>

\* Lines 180-210: one iteration of the loop, on raw record rec.
FilterStep(rec) ==
    /\ pc = "transform"
    /\ idx < total_records
    /\ upstream.pinned => rec = upstream.recs[idx + 1]
    /\ idx' = idx + 1
    /\ LET detects == DriftChecked(processed_count)
           drift == IF detects THEN DetectDrift(rec) ELSE NoError
           accepted ==
               /\ drift = NoError
               /\ rec.fault = NoError
               /\ ~Filtered(last_ingested, rec.ts)
           count == IF accepted THEN processed_count + 1 ELSE processed_count
           raised ==
               IF drift # NoError THEN drift
               ELSE IF rec.fault # NoError THEN rec.fault
               ELSE IF accepted /\ ChaosTriggers(chaos, count, total_records)
                    THEN MsgChaos
                    ELSE NoError
       IN /\ drift_calls' = IF detects THEN drift_calls + 1 ELSE drift_calls
          /\ new_records' =
                IF accepted THEN Append(new_records, Unified(rec)) ELSE new_records
          /\ processed_count' = count
          /\ max_ts' = IF accepted /\ raised = NoError
                       THEN NewMax(max_ts, rec.ts) ELSE max_ts
          /\ IF raised # NoError /\ Reraised(raised)
             THEN pc' = "except" /\ err' = raised
             ELSE /\ pc' = IF idx + 1 = total_records THEN "load" ELSE "transform"
                  /\ err' = err
    /\ UNCHANGED <<drift_log, chaos_at_filter, chaos, db_cp, cp_rows, db_data,
                   sess_data, upstream, etl, merge_log, src, kind, attempt,
                   last_ingested, total_records, loaded, history>>

\* The upsert executed as soon as a record is accepted, inside the loop.
ExecuteEarly ==
    /\ pc \in {"transform", "load"}
    /\ loaded < Len(new_records)
    /\ sess_data' = Upsert(sess_data, new_records[loaded + 1])
    /\ loaded' = loaded + 1
    /\ UNCHANGED <<drift_log, chaos_at_filter, chaos, db_cp, cp_rows, db_data,
                   upstream, etl, merge_log, pc, src, kind, attempt,
                   last_ingested, loopVars, err, history>>

\* Line 230: the next upsert runs in the session's transaction.
Execute ==
    /\ pc = "load"
    /\ loaded < Len(new_records)
    /\ sess_data' = Upsert(sess_data, new_records[loaded + 1])
    /\ loaded' = loaded + 1
    /\ UNCHANGED <<drift_log, chaos_at_filter, chaos, db_cp, cp_rows, db_data,
                   upstream, etl, merge_log, pc, src, kind, attempt,
                   last_ingested, loopVars, err, history>>

\* Line 230 raises.
ExecuteRaises ==
    /\ pc = "load"
    /\ loaded < Len(new_records)
    /\ pc' = "except"
    /\ err' = MsgDb
    /\ UNCHANGED <<drift_log, chaos_at_filter, chaos, db_cp, cp_rows, db_data,
                   sess_data, upstream, etl, merge_log, src, kind, attempt,
                   last_ingested, loopVars, loaded, history>>

\* Line 232: the first commit makes the upserts durable.
CommitData ==
    /\ pc = "load"
    /\ loaded = Len(new_records)
    /\ db_data' = sess_data
    /\ pc' = "checkpoint"
    /\ UNCHANGED <<drift_log, chaos_at_filter, chaos, db_cp, cp_rows,
                   sess_data, upstream, etl, runVars, history>>

\* Line 232 raises.
CommitDataRaises ==
    /\ pc = "load"
    /\ loaded = Len(new_records)
    /\ pc' = "except"
    /\ err' = MsgDb
    /\ UNCHANGED <<drift_log, chaos_at_filter, chaos, db_cp, cp_rows, db_data,
                   sess_data, upstream, etl, merge_log, src, kind, attempt,
                   last_ingested, loopVars, loaded, history>>

\* The checkpoint select without its WHERE: the first row of the table.
RecordSuccessFirstRow ==
    /\ pc = "checkpoint"
    /\ LET first == CHOOSE s \in DOMAIN db_cp :
                        \A o \in DOMAIN db_cp : db_cp[o].last_status # "none"
                                                  => db_cp[s].last_status # "none"
       IN /\ db_cp' = [db_cp EXCEPT ![first] =
                          UpdateCheckpoint(@, "success", Len(new_records), NoError, max_ts)]
          /\ cp_rows' = [cp_rows EXCEPT ![first] = RowsAfterUpdate(db_cp[first], @)]
    /\ pc' = "succeeded"
    /\ UNCHANGED <<drift_log, chaos_at_filter, chaos, db_data, sess_data,
                   upstream, etl, merge_log, runVars, history>>

\* Lines 238-239: update_checkpoint("success", ...) and the second commit.
RecordSuccess ==
    /\ pc = "checkpoint"
    /\ db_cp' = [db_cp EXCEPT ![src] =
                    UpdateCheckpoint(@, "success", Len(new_records), NoError, max_ts)]
    /\ cp_rows' = [cp_rows EXCEPT ![src] = RowsAfterUpdate(db_cp[src], @)]
    /\ pc' = "succeeded"
    /\ UNCHANGED <<drift_log, chaos_at_filter, chaos, db_data, sess_data,
                   upstream, etl, merge_log, runVars, history>>

\* The select of update_checkpoint (line 43) or the commit of line 239 raises.
RecordSuccessRaises ==
    /\ pc = "checkpoint"
    /\ pc' = "except"
    /\ err' = MsgDb
    /\ UNCHANGED <<drift_log, chaos_at_filter, chaos, db_cp, cp_rows, db_data,
                   sess_data, upstream, etl, merge_log, src, kind, attempt,
                   last_ingested, loopVars, loaded, history>>

\* The handler reporting the records accepted so far instead of 0.
HandleFailureCountsRecords ==
    /\ pc = "except"
    /\ sess_data' = Rollback(db_data, sess_data)
    /\ db_data' = sess_data'
    /\ db_cp' = [db_cp EXCEPT ![src] =
                    UpdateCheckpoint(@, "failure", Len(new_records), err, NoTs)]
    /\ cp_rows' = [cp_rows EXCEPT ![src] = RowsAfterUpdate(db_cp[src], @)]
    /\ pc' = "failed"
    /\ UNCHANGED <<drift_log, chaos_at_filter, chaos, upstream, etl,
                   merge_log, runVars, history>>

\* Lines 247-253: rollback, update_checkpoint("failure", 0, error=str(e))
\* with last_ts left at its default None, and the commit of line 253,
\* which makes durable what the session holds after the rollback.
HandleFailure ==
    /\ pc = "except"
    /\ sess_data' = Rollback(db_data, sess_data)
    /\ db_data' = sess_data'
    /\ db_cp' = [db_cp EXCEPT ![src] =
                    UpdateCheckpoint(@, "failure", 0, err, NoTs)]
    /\ cp_rows' = [cp_rows EXCEPT ![src] = RowsAfterUpdate(db_cp[src], @)]
    /\ pc' = "failed"
    /\ UNCHANGED <<drift_log, chaos_at_filter, chaos, upstream, etl,
                   merge_log, runVars, history>>

\* An await of the handler raises: the exception leaves process_source and
\* the session closes without a commit.
HandleFailureRaises ==
    /\ pc = "except"
    /\ sess_data' = db_data
    /\ pc' = "raised"
    /\ UNCHANGED <<drift_log, chaos_at_filter, chaos, db_cp, cp_rows, db_data,
                   upstream, etl, merge_log, runVars, history>>

\* A caller awaits process_source itself, as the tests do.
Call(s, k, mode) == StartRun(s, k, mode) /\ UNCHANGED etl

CallRaises(s) == GetCheckpointRaises(s) /\ UNCHANGED etl

Commit == CommitData /\ UNCHANGED merge_log

Next ==
    \/ \E s \in Sources, k \in FetchKinds, mode \in BOOLEAN : Call(s, k, mode)
    \/ \E s \in Sources : CallRaises(s)
    \/ FetchRetries
    \/ FetchFails
    \/ \E n \in 0..(IF upstream.pinned THEN MaxStream ELSE MaxFetch) : FetchReturns(n)
    \/ \E rec \in Records : FilterStep(rec)
    \/ Execute
    \/ ExecuteRaises
    \/ Commit
    \/ CommitDataRaises
    \/ RecordSuccess
    \/ RecordSuccessRaises
    \/ HandleFailure
    \/ HandleFailureRaises

\* Any upstream, any source.
Spec == Init /\ [][Next]_vars

\* The upstream list never changes.
SpecPinned == InitPinned /\ [][Next]_vars

\* ------------------------------------------------------------ the toggle
\* settings is one object for the whole process (get_settings is cached):
\* an assignment to settings.CHAOS_MODE, as the chaos test makes, is seen
\* by the next evaluation of line 200.
SetChaos(mode) ==
    /\ chaos # mode
    /\ chaos' = mode
    /\ UNCHANGED <<drift_log, chaos_at_filter, db_cp, cp_rows, db_data,
                   sess_data, upstream, etl, merge_log, pc, runVars, history>>

NextToggle ==
    \/ Next
    \/ \E mode \in BOOLEAN : SetChaos(mode)

\* Runs during which the toggle may be assigned.
SpecToggle == Init /\ [][NextToggle]_vars

\* ---------------------------------------------------------------- run_etl
\* Lines 258-260: the sources of a pass, in the order run_etl awaits them.
EtlOrder == <<"mock_api", "local_csv", "rss_feed">>
EtlSources == {EtlOrder[i] : i \in 1..Len(EtlOrder)}

\* Lines 258-260: the fetch function run_etl passes for the source.
FetchFuncOf(s) ==
    CASE s = "mock_api" -> "retry_callback"
      [] s = "local_csv" -> "plain"
      [] s = "rss_feed" -> "retry"

\* The await before this one returned.
Returned == pc \in {"idle", "succeeded", "failed"}

\* Lines 255-257: run_etl is called; settings.CHAOS_MODE is what the
\* configuration says.
EtlBegin(mode) ==
    /\ etl.st = "off"
    /\ pc = "idle"
    /\ etl' = [st |-> "running", pos |-> 0]
    /\ chaos' = mode
    /\ chaos_at_filter' = mode
    /\ UNCHANGED <<drift_log, db_cp, cp_rows, db_data, sess_data, upstream,
                   pc, runVars, merge_log, history>>

\* Lines 258-260: the next await of process_source.
EtlRunSource ==
    /\ etl.st = "running"
    /\ etl.pos < Len(EtlOrder)
    /\ Returned
    /\ StartRun(EtlOrder[etl.pos + 1], FetchFuncOf(EtlOrder[etl.pos + 1]), chaos)
    /\ etl' = [etl EXCEPT !.pos = @ + 1]

\* The next await of process_source, whose first select raises.
EtlRunSourceRaises ==
    /\ etl.st = "running"
    /\ etl.pos < Len(EtlOrder)
    /\ Returned
    /\ GetCheckpointRaises(EtlOrder[etl.pos + 1])
    /\ etl' = [etl EXCEPT !.pos = @ + 1]

\* Lines 261-263: an await of process_source raised; run_etl logs
\* pipeline_critical_failure, then pipeline_finish.
EtlCatch ==
    /\ etl.st = "running"
    /\ pc = "raised"
    /\ etl' = [etl EXCEPT !.st = "finished"]
    /\ UNCHANGED <<drift_log, chaos_at_filter, chaos, db_cp, cp_rows, db_data,
                   sess_data, upstream, pc, runVars, merge_log, history>>

\* Line 263: the last await returned; run_etl logs pipeline_finish.
EtlFinish ==
    /\ etl.st = "running"
    /\ etl.pos = Len(EtlOrder)
    /\ pc \in {"succeeded", "failed"}
    /\ etl' = [etl EXCEPT !.st = "finished"]
    /\ UNCHANGED <<drift_log, chaos_at_filter, chaos, db_cp, cp_rows, db_data,
                   sess_data, upstream, pc, runVars, merge_log, history>>

InitEtl ==
    /\ InitFor(EtlSources)
    /\ upstream = [pinned |-> FALSE, recs |-> <<>>]

NextEtl ==
    \/ \E mode \in BOOLEAN : EtlBegin(mode)
    \/ EtlRunSource
    \/ EtlRunSourceRaises
    \/ EtlCatch
    \/ EtlFinish
    \/ FetchRetries
    \/ FetchFails
    \/ \E n \in 0..MaxFetch : FetchReturns(n)
    \/ \E rec \in Records : FilterStep(rec)
    \/ Execute
    \/ ExecuteRaises
    \/ Commit
    \/ CommitDataRaises
    \/ RecordSuccess
    \/ RecordSuccessRaises
    \/ HandleFailure
    \/ HandleFailureRaises

\* One pass of run_etl over its three sources.
SpecEtl == InitEtl /\ [][NextEtl]_vars

\* The steps of a pass that do not wait for an adapter: run_etl's own, the
\* loop's iterations and the awaits of the database, which return or raise.
EtlProgress ==
    \/ \E mode \in BOOLEAN : EtlBegin(mode)
    \/ EtlRunSource
    \/ EtlRunSourceRaises
    \/ EtlCatch
    \/ EtlFinish
    \/ \E rec \in Records : FilterStep(rec)
    \/ Execute
    \/ ExecuteRaises
    \/ Commit
    \/ CommitDataRaises
    \/ RecordSuccess
    \/ RecordSuccessRaises
    \/ HandleFailure
    \/ HandleFailureRaises

\* A pass on a running event loop: a coroutine whose await has completed is
\* resumed.  The await of fetch_func (line 169) carries no timeout, so
\* nothing is assumed of the adapter.
SpecEtlFair == SpecEtl /\ WF_vars(EtlProgress)

\* ----------------------------------------------------- two sources, one key
\* test_unification: two sources whose feeds carry the same entity.
MergeSources == {"source_a", "source_b"}
MergeValues == {100, 200}
\* FIXED_TIME and a later time.
MergeTimestamps == {1, 2}
MergeRecords ==
    [id : Ids, ts : MergeTimestamps, value : MergeValues,
     fault : {NoError}, mapping : {TRUE}]

\* A caller awaits process_source for one of the two sources, with the
\* test's fetch function (no retry) and fault injection off.
MergeCall(s) ==
    /\ Len(merge_log) < MaxMerges
    /\ Call(s, "plain", FALSE)

\* Line 232, with the history of what it made durable.
CommitLogged ==
    /\ CommitData
    /\ merge_log' =
          merge_log \o [i \in 1..Len(new_records) |->
                           [source |-> src, rec |-> new_records[i]]]

\* Lines 215-229 write external_id, name, timestamp, value and category:
\* the per-source entries a row holds are none.
SourceMap(row) == [s \in {} |-> 0]

InitMerge ==
    /\ InitFor(MergeSources)
    /\ upstream = [pinned |-> FALSE, recs |-> <<>>]

NextMerge ==
    \/ \E s \in MergeSources : MergeCall(s)
    \/ \E s \in MergeSources : CallRaises(s)
    \/ FetchFails
    \/ \E n \in 0..(MaxMerges - Len(merge_log)) : FetchReturns(n)
    \/ \E rec \in MergeRecords : FilterStep(rec)
    \/ Execute
    \/ ExecuteRaises
    \/ CommitLogged
    \/ CommitDataRaises
    \/ RecordSuccess
    \/ RecordSuccessRaises
    \/ HandleFailure
    \/ HandleFailureRaises

\* Runs of two sources over the same entities.
SpecMerge == InitMerge /\ [][NextMerge]_vars

\* ------------------------------------------------------------ local_csv
\* data/source.csv as open() finds it: a file with rows, no file, or a
\* file that cannot be opened or decoded.
CsvFiles == {"rows", "missing", "unreadable"}

\* What csv.DictReader and normalize_csv_record make of a row: a dict; a
\* row that lacks a column raises KeyError, any other row is stamped with
\* the time of its normalization.
CsvRecords ==
    {r \in Records :
        /\ r.mapping
        /\ r.fault \in {NoError, MsgValidation}
        /\ r.fault = NoError => r.ts # NoTs}

\* A caller awaits process_source("local_csv", read_csv_data, ...).
CsvCall(mode) == Call("local_csv", FetchFuncOf("local_csv"), mode)

\* read_csv_data, lines 94-103, returns: the rows of the file, or the
\* empty list when open() raises FileNotFoundError.
ReadCsvReturns(n) ==
    /\ upstream.file # "unreadable"
    /\ upstream.file = "missing" => n = 0
    /\ FetchReturns(n)

\* read_csv_data raises: its try catches FileNotFoundError and nothing
\* else, so PermissionError, IsADirectoryError or UnicodeDecodeError leave
\* it and line 169 raises into the outer except.
ReadCsvRaises ==
    /\ pc = "fetch"
    /\ upstream.file = "unreadable"
    /\ pc' = "except"
    /\ err' = MsgCsv
    /\ UNCHANGED <<drift_log, chaos_at_filter, attempt, chaos, db_cp, cp_rows,
                   db_data, sess_data, upstream, etl, merge_log, src, kind,
                   last_ingested, loopVars, loaded, history>>

InitCsv ==
    /\ InitFor({"local_csv"})
    /\ upstream \in [pinned : {FALSE}, recs : {<<>>}, file : CsvFiles]

NextCsv ==
    \/ \E mode \in BOOLEAN : CsvCall(mode)
    \/ CallRaises("local_csv")
    \/ \E n \in 0..MaxFetch : ReadCsvReturns(n)
    \/ ReadCsvRaises
    \/ \E rec \in CsvRecords : FilterStep(rec)
    \/ Execute
    \/ ExecuteRaises
    \/ Commit
    \/ CommitDataRaises
    \/ RecordSuccess
    \/ RecordSuccessRaises
    \/ HandleFailure
    \/ HandleFailureRaises

\* Runs of the file-based source.
SpecCsv == InitCsv /\ [][NextCsv]_vars

\* ----------------------------------------------------------- detect_drift
\* UnifiedDataCreate.model_fields: the model process_source passes.
ExpectedKeys == {"external_id", "name", "timestamp", "value", "category"}

\* Line 24.
CriticalKeys == {"ticker", "symbol", "price", "price_usd", "quotes"}

\* Keys a raw record may carry: the model's fields, one of the critical
\* keys and one key that is neither.
PayloadKeys == ExpectedKeys \cup {"price", "volume"}

\* Lines 12-37, on a dict with these keys: the warnings logged.  Line 33
\* computes expected_keys and nothing follows it.
DetectDriftLog(keys) ==
    LET incoming_keys == keys
        found_critical == incoming_keys \cap CriticalKeys
    IN IF found_critical = {} THEN {"potential_schema_drift"} ELSE {}

\* detect_drift(payload, UnifiedDataCreate, source_name) on a dict.
DetectDriftCall(keys) ==
    /\ drift_log' = [called |-> TRUE, keys |-> keys, events |-> DetectDriftLog(keys)]
    /\ UNCHANGED <<chaos, chaos_at_filter, db_cp, cp_rows, db_data, sess_data,
                   upstream, etl, merge_log, pc, runVars, history>>

InitDrift ==
    /\ InitFor(Sources)
    /\ upstream = [pinned |-> FALSE, recs |-> <<>>]

NextDrift == \E keys \in SUBSET PayloadKeys : DetectDriftCall(keys)

\* Calls of detect_drift on any payload.
SpecDrift == InitDrift /\ [][NextDrift]_vars

\* ---------------------------------------------------------------- claims
\* The run has returned with a checkpoint written for it.
Recorded == pc \in {"succeeded", "failed"}

StoredHwm == db_cp[src].last_ingested_timestamp

\* Texts of failures that come from outside the records: the adapter's
\* call and the database.
OutsideFaults == {MsgFetch, MsgRetryError, MsgNoneLen, MsgDb}

\* C1: a run that ends Failed leaves the source's stored high-water-mark
\* exactly as it was before the run.
C1_FailedRunKeepsHwm ==
    pc = "failed" => StoredHwm = cp_before.last_ingested_timestamp

\* C2: entity writes and checkpoint update are one atomic unit: once the run
\* has ended, entity writes of the run are durable only if the checkpoint
\* records success for it, and a checkpoint recording failure comes with
\* none of the run's writes durable.
C2_WritesAndCheckpointAtomic ==
    Recorded =>
        \/ pc = "succeeded" /\ db_cp[src].last_status = "success"
        \/ pc = "failed" /\ db_cp[src].last_status = "failure"
                         /\ db_data = data_before

\* C3: a run aborted by fault injection ends with the checkpoint at
\* status failure, records_processed 0, an error text that mentions the
\* injected fault, and none of the run's records persisted.
C3_ChaosAbortRecorded ==
    (pc = "failed" /\ err = MsgChaos) =>
        /\ db_cp[src].last_status = "failure"
        /\ db_cp[src].records_processed = 0
        /\ MentionsInjectedFault(db_cp[src].error_log)
        /\ db_data = data_before
        /\ sess_data = data_before

\* A run of two records aborted at its second accepted record, over a
\* table that already holds a row.
C3_Witness ==
    /\ pc = "failed"
    /\ err = MsgChaos
    /\ chaos
    /\ total_records = 2
    /\ Len(new_records) = 2
    /\ data_before # NoRows

\* The pinned upstream, as the records a run has to deal with.
Feed == upstream.recs
FeedIdx == 1..Len(Feed)

\* C4: after a run aborted by fault injection, the next run of the source
\* with fault injection disabled and the same upstream records ends with
\* status success and records_processed > 0.
C4_RecoveryAfterAbort ==
    ( /\ Recorded
      /\ upstream.pinned
      /\ cp_before.last_status = "failure"
      /\ MentionsInjectedFault(cp_before.error_log)
      /\ ~chaos
      /\ err \notin OutsideFaults )
    => /\ pc = "succeeded"
       /\ db_cp[src].last_status = "success"
       /\ db_cp[src].records_processed > 0

\* C5: every fetched record whose timestamp is at or below the stored
\* high-water-mark is kept out of the accepted list, and the count follows
\* the accepted list.
C5_FilterBoundaryInclusive ==
    /\ \A i \in 1..idx :
          ( /\ upstream.pinned
            /\ Feed[i].fault = NoError
            /\ Feed[i].ts # NoTs
            /\ cp_before.last_ingested_timestamp # NoTs
            /\ Feed[i].ts <= cp_before.last_ingested_timestamp )
          => \A j \in 1..Len(new_records) :
                new_records[j] # Unified(Feed[i])
    /\ processed_count = Len(new_records)
    /\ pc = "succeeded" => db_cp[src].records_processed = Len(new_records)

\* A run over a stored high-water-mark of 2 that met a record at 2, a record
\* at 1 and a record it accepted.
C5_Witness ==
    /\ pc = "succeeded"
    /\ upstream.pinned
    /\ cp_before.last_ingested_timestamp = 2
    /\ \E i \in 1..idx : Feed[i].fault = NoError /\ Feed[i].ts = 2
    /\ \E i \in 1..idx : Feed[i].fault = NoError /\ Feed[i].ts = 1
    /\ Len(new_records) = 1

\* Every record of the upstream is valid and carries a timestamp at or
\* below one that a successful earlier run of the source recorded.
NothingNew ==
    /\ upstream.pinned
    /\ \A i \in FeedIdx :
          /\ Feed[i].fault = NoError
          /\ Feed[i].ts # NoTs
          /\ Feed[i].ts <= hwm_hist[src]

\* C6: running again when the upstream returns no record newer than what
\* was already ingested ends with status success and records_processed 0 and
\* leaves the stored entities and the high-water-mark unchanged.
C6_NoOpRerun ==
    ( /\ Recorded
      /\ NothingNew
      /\ ~chaos
      /\ err \notin OutsideFaults )
    => /\ pc = "succeeded"
       /\ db_cp[src].last_status = "success"
       /\ db_cp[src].records_processed = 0
       /\ db_data = data_before
       /\ StoredHwm = cp_before.last_ingested_timestamp

\* C7: the high-water-mark a successful run records is at least the
\* high-water-mark every earlier successful run of the source recorded.
C7_HwmMonotone ==
    (pc = "succeeded" /\ StoredHwm # NoTs) => StoredHwm >= hwm_hist[src]

\* C8: after a run that ends Succeeded the checkpoint has status success,
\* records_processed the number of records merged, no error text, and the
\* greatest timestamp among the accepted records as high-water-mark (the
\* timestamp the filter used when no accepted record carries one).
C8_SuccessCheckpoint ==
    pc = "succeeded" =>
        /\ loaded = Len(new_records)
        /\ db_cp[src] =
              [last_status |-> "success",
               records_processed |-> Len(new_records),
               error_log |-> NoError,
               last_ingested_timestamp |->
                   IF MaxTsOf(new_records) # NoTs
                   THEN MaxTsOf(new_records)
                   ELSE LastIngested(cp_before)]

\* A successful run, not the first of its source, that accepted a record at
\* 2 and then a record at 1.
C8_Witness ==
    /\ pc = "succeeded"
    /\ cp_before.last_status # "none"
    /\ Len(new_records) = 2
    /\ new_records[1].ts = 2
    /\ new_records[2].ts = 1

\* C9: when the adapter's fetch raises, directly or after its retries are
\* exhausted, the run goes straight to Failed: no record is filtered or
\* merged, no entity is written, and the checkpoint records failure, 0
\* records and an error text that contains the fetch exception's message.
C9_FetchFailureRecorded ==
    (pc = "failed" /\ err \in {MsgFetch, MsgRetryError, MsgNoneLen}) =>
        /\ idx = 0
        /\ new_records = <<>>
        /\ loaded = 0
        /\ db_data = data_before
        /\ db_cp[src].last_status = "failure"
        /\ db_cp[src].records_processed = 0
        /\ ContainsFetchMessage(db_cp[src].error_log)

\* C10: a record that fails validation is skipped and does not abort the
\* run: with at least one other valid record the run ends with status
\* success and records_processed counting the valid accepted records.
C10_InvalidRecordSkipped ==
    ( /\ Recorded
      /\ upstream.pinned
      /\ \E i \in FeedIdx : Feed[i].fault # NoError
      /\ \E i \in FeedIdx : Feed[i].fault = NoError
      /\ ~chaos
      /\ err \notin OutsideFaults )
    => /\ pc = "succeeded"
       /\ db_cp[src].last_status = "success"
       /\ db_cp[src].records_processed =
              Cardinality({i \in FeedIdx :
                  /\ Feed[i].fault = NoError
                  /\ ~Filtered(LastIngested(cp_before), Feed[i].ts)})

\* C11: no exception escapes a source's run, and a pass of run_etl is
\* declared complete only after every configured source has been run to
\* the end: whatever failed in one source's run, the remaining ones ran.
C11_PassRunsEverySource ==
    etl.st = "finished" =>
        /\ pc # "raised"
        /\ etl.pos = Len(EtlOrder)
        /\ \A s \in EtlSources : db_cp[s].last_status # "none"

\* C12: a run of one source changes no field of any other source's
\* checkpoint: in every step, the checkpoint rows of the sources other
\* than the one running stay as they are.
C12_OtherCheckpointsUntouched ==
    [][\A s \in DOMAIN db_cp :
          s # src' => db_cp'[s] = db_cp[s] /\ cp_rows'[s] = cp_rows[s]]_vars

\* The second source of a pass has succeeded after the first one failed.
C12_Witness ==
    /\ etl.pos = 2
    /\ pc = "succeeded"
    /\ db_cp[EtlOrder[1]].last_status = "failure"
    /\ db_cp[EtlOrder[2]].last_status = "success"
    /\ db_cp[EtlOrder[2]].records_processed > 0

\* The keys the committed records were merged under.
Key(u) == <<u.id, u.ts>>
MergedKeys == {Key(merge_log[i].rec) : i \in 1..Len(merge_log)}
Contributors(k) ==
    {merge_log[i].source : i \in {j \in 1..Len(merge_log) : Key(merge_log[j].rec) = k}}

\* The value of the record source s merged last under key k.
LatestValue(s, k) ==
    LET mine == {j \in 1..Len(merge_log) :
                    merge_log[j].source = s /\ Key(merge_log[j].rec) = k}
        last == CHOOSE j \in mine : \A o \in mine : o <= j
    IN merge_log[last].rec.value

RECURSIVE SumOfLatest(_, _)
SumOfLatest(S, k) ==
    IF S = {} THEN 0
    ELSE LET s == CHOOSE x \in S : TRUE
         IN LatestValue(s, k) + SumOfLatest(S \ {s}, k)

RowsOf(k) == {r \in BagToSet(db_data) : Key(r) = k}

\* C13: after any sequence of merges under one (entity_key, timestamp) key
\* the entity holds one entry per contributing source with that source's
\* latest value, and its value is the mean of those entries.
C13_SourceMapAndMean ==
    Ended =>
        \A k \in MergedKeys :
            \E r \in RowsOf(k) :
                /\ DOMAIN SourceMap(r) = Contributors(k)
                /\ \A s \in Contributors(k) : SourceMap(r)[s] = LatestValue(s, k)
                /\ r.value * Cardinality(Contributors(k)) =
                      SumOfLatest(Contributors(k), k)

\* The number of rows a table holds under key k.
RECURSIVE RowsAmong(_, _)
RowsAmong(table, rows) ==
    IF rows = {} THEN 0
    ELSE LET r == CHOOSE x \in rows : TRUE
         IN table[r] + RowsAmong(table, rows \ {r})

RowCount(table, k) == RowsAmong(table, {r \in BagToSet(table) : Key(r) = k})

AllKeys == {<<i, ts>> : i \in Ids, ts \in {NoTs} \cup Timestamps}

\* C14: the entity store holds at most one row per (entity_key, timestamp)
\* pair, in the committed table and in the open transaction, however many
\* sources have contributed a record for the pair.
C14_OneRowPerKey ==
    \A k \in AllKeys : RowCount(db_data, k) <= 1 /\ RowCount(sess_data, k) <= 1

\* Both sources have committed a record for one pair, the second one with
\* another value, and the pair has its row.
C14_Witness ==
    /\ Ended
    /\ \E k \in MergedKeys :
          /\ Contributors(k) = MergeSources
          /\ RowCount(db_data, k) = 1
          /\ LatestValue("source_a", k) # LatestValue("source_b", k)

\* C15: when two sources merge records under the same key, under any
\* interleaving of their runs, no contribution is lost: once both runs are
\* over the entity holds both sources' entries and its value is computed
\* from both.
C15_NoContributionLost ==
    Ended =>
        \A k \in MergedKeys :
            Cardinality(Contributors(k)) >= 2 =>
                \E r \in RowsOf(k) :
                    /\ Contributors(k) \subseteq DOMAIN SourceMap(r)
                    /\ r.value * Cardinality(Contributors(k)) =
                          SumOfLatest(Contributors(k), k)

\* The table the committed records leave when merged in the order of log.
RECURSIVE Replay(_)
Replay(log) ==
    IF log = <<>> THEN NoRows
    ELSE Upsert(Replay(SubSeq(log, 1, Len(log) - 1)), log[Len(log)].rec)

\* C16: the final state of an entity does not depend on the order in which
\* the contributing sources' runs complete: two sources having merged one
\* record each under the same key, the table is the one the opposite order
\* leaves.
C16_OrderIndependent ==
    ( /\ Ended
      /\ Len(merge_log) = 2
      /\ merge_log[1].source # merge_log[2].source
      /\ Key(merge_log[1].rec) = Key(merge_log[2].rec) )
    => db_data = Replay(<<merge_log[2], merge_log[1]>>)

\* C17: within one run the fetch of a retrying adapter is attempted at
\* most 5 times; when every attempt has failed the run goes to its failure
\* handler without a record consumed, and the fetch is not called again in
\* that run.
C17_AtMostFiveAttempts ==
    /\ attempt <= RetryAttempts
    /\ pc = "fetch" => attempt >= 1 /\ err = NoError
    /\ (pc \in {"except", "failed"} /\ err \in {MsgFetch, MsgRetryError, MsgNoneLen}) =>
          /\ attempt = (IF err = MsgFetch THEN 1 ELSE RetryAttempts)
          /\ idx = 0
          /\ loaded = 0
    /\ pc = "failed" => db_cp[src].last_status = "failure"

\* A run whose fetch raised five times has ended Failed.
C17_Witness ==
    /\ pc = "failed"
    /\ attempt = RetryAttempts
    /\ err = MsgRetryError
    /\ db_cp[src].error_log = MsgRetryError

\* What the loop accepts of the first n records of the pinned upstream when
\* detect_drift is not called: the valid records the filter lets through.
RECURSIVE AcceptedWithoutDetector(_)
AcceptedWithoutDetector(n) ==
    IF n = 0 THEN <<>>
    ELSE IF Feed[n].fault = NoError /\ ~Filtered(last_ingested, Feed[n].ts)
         THEN Append(AcceptedWithoutDetector(n - 1), Unified(Feed[n]))
         ELSE AcceptedWithoutDetector(n - 1)

\* C18: drift detection never changes a run's outcome: whatever the
\* detector does on a raw record, the records accepted, the run's final
\* state and the checkpoint written are those of the run without it.
C18_DriftNeverChangesOutcome ==
    upstream.pinned =>
        /\ pc \in {"transform", "load", "checkpoint", "succeeded"} =>
              new_records = AcceptedWithoutDetector(idx)
        /\ pc = "succeeded" =>
              db_cp[src].records_processed =
                  Len(AcceptedWithoutDetector(Len(Feed)))
        /\ (pc = "failed" /\ err \notin OutsideFaults) =>
              err \in {MsgChaos, MsgValidationChaos}

\* C19: drift detection is invoked at most once per run, on the first
\* fetched record only, however many records the fetch returns and whether
\* or not the first records are filtered out or invalid.
C19_DriftCheckedOnce ==
    /\ drift_calls <= 1
    /\ (pc \in {"transform", "load"} /\ idx >= 1) => drift_calls = 1

\* C20: after any sequence of runs there is exactly one checkpoint row for
\* every source that has recorded a run, and none for the others: the
\* first run inserts the row and every later run overwrites it in place.
C20_OneCheckpointRow ==
    /\ \A s \in DOMAIN db_cp :
          cp_rows[s] = (IF db_cp[s].last_status = "none" THEN 0 ELSE 1)
    /\ Recorded => cp_rows[src] = 1

\* A source's run has been recorded over the row of an earlier run that
\* ended the other way.
C20_Witness ==
    /\ pc = "failed"
    /\ cp_before.last_status = "success"
    /\ db_cp[src].last_status = "failure"
    /\ cp_rows[src] = 1

\* C21: every run that has started and ended has ended Succeeded or Failed,
\* with the source's checkpoint holding that run's outcome: status, number
\* of records and error text.  No run ends without updating its checkpoint.
C21_RunEndsRecorded ==
    (Ended /\ pc # "idle") =>
        \/ /\ pc = "succeeded"
           /\ db_cp[src].last_status = "success"
           /\ db_cp[src].records_processed = Len(new_records)
           /\ db_cp[src].error_log = NoError
        \/ /\ pc = "failed"
           /\ db_cp[src].last_status = "failure"
           /\ db_cp[src].records_processed = 0
           /\ db_cp[src].error_log = err

\* C22: a run that fails while its records are being written or committed
\* (a persistence error on the k-th upsert, on the commit of the upserts or
\* on the commit of the checkpoint) leaves none of its entity writes in the
\* store once it has ended, committed or pending.
C22_FailedLoadLeavesNoWrites ==
    (pc = "failed" /\ err = MsgDb) =>
        /\ db_data = data_before
        /\ sess_data = data_before

\* C23: sources do not block each other: if the fetch of one source of a
\* pass never returns, the run of every other configured source still
\* ends Succeeded or Failed, its checkpoint written.
C23_StuckFetchBlocksNoOne ==
    \A s \in EtlSources :
        <>[](etl.st = "running" /\ src = s /\ pc = "fetch") =>
            \A o \in EtlSources \ {s} : <>(db_cp[o].last_status # "none")

\* The keys of the last payload against the expected schema.
Unexpected == drift_log.keys \ ExpectedKeys
SimilarityBelowThreshold ==
    10 * Cardinality(drift_log.keys \cap ExpectedKeys) <
        9 * Cardinality(drift_log.keys \cup ExpectedKeys)

\* C24: the drift detector logs a low-confidence warning exactly when the
\* Jaccard similarity of the raw keys and the expected keys is below 0.9,
\* whatever the two key sets; any warning the call logs counts as that one.
C24_LowConfidenceIffBelowThreshold ==
    drift_log.called => (drift_log.events # {} <=> SimilarityBelowThreshold)

\* C25: the drift detector logs a drift warning exactly when the raw
\* record has at least one key the expected schema does not have.
C25_DriftWarningIffUnexpectedKey ==
    drift_log.called =>
        ("potential_schema_drift" \in drift_log.events <=> Unexpected # {})

\* C26: the fault-injection toggle is sampled once per filtering phase: a
\* run aborts by fault injection only if the toggle was on when its
\* filtering began, and a run whose filtering began with the toggle on
\* does not get past the record that takes the accepted count over half
\* the fetched count, whatever is assigned to the toggle meanwhile.
C26_ToggleSampledOnce ==
    /\ (pc \in {"except", "failed"} /\ err = MsgChaos) => chaos_at_filter
    /\ (pc \in {"transform", "load", "checkpoint", "succeeded"} /\ chaos_at_filter) =>
           2 * processed_count <= total_records

\* C27: with fault injection on, a run aborts at the moment its count of
\* accepted records first exceeds half the number of fetched records, and
\* only then: short of a failure of the adapter or of the database, a run
\* that has not reached that count goes on and ends Succeeded.
C27_AbortExactlyPastHalf ==
    (chaos /\ err \notin OutsideFaults) =>
        /\ pc \in {"except", "failed"} =>
              /\ err = MsgChaos
              /\ 2 * processed_count > total_records
              /\ 2 * (processed_count - 1) <= total_records
        /\ pc \in {"transform", "load", "checkpoint", "succeeded"} =>
              2 * processed_count <= total_records

\* C30: with fault injection off, no exception raised while a single
\* record is normalized or filtered ends the run Failed, whatever its
\* text: a run with the toggle off fails only on the adapter or the
\* database.
C30_RecordFaultNeverFailsRun ==
    (~chaos /\ pc \in {"except", "failed"}) => err \in OutsideFaults

\* s is t with some of its elements left out.
RECURSIVE IsSubseq(_, _)
IsSubseq(s, t) ==
    IF s = <<>> THEN TRUE
    ELSE IF t = <<>> THEN FALSE
    ELSE IF Head(s) = Head(t) THEN IsSubseq(Tail(s), Tail(t))
    ELSE IsSubseq(s, Tail(t))

\* What normalize_func makes of the first n records of the pinned upstream.
UnifiedFeed(n) == [i \in 1..n |-> Unified(Feed[i])]

\* The table after the first n accepted records have been written, in the
\* order of the list, over the table the run found.
RECURSIVE Written(_)
Written(n) ==
    IF n = 0 THEN data_before ELSE Upsert(Written(n - 1), new_records[n])

\* C28: the phases of a run are strictly ordered: no entity write is
\* issued before every fetched record has been through the loop, the
\* accepted records are in fetch order and are written in that order,
\* nothing is committed before all of them are written, and the
\* checkpoint is not touched before the writes are committed.
C28_PhasesInOrder ==
    /\ (loaded > 0 \/ sess_data # db_data) => idx = total_records
    /\ upstream.pinned => IsSubseq(new_records, UnifiedFeed(idx))
    /\ pc \in {"fetch", "transform", "load"} =>
          /\ sess_data = Written(loaded)
          /\ db_data = data_before
          /\ db_cp[src] = cp_before
    /\ pc = "checkpoint" =>
          /\ loaded = Len(new_records)
          /\ db_data = Written(Len(new_records))
          /\ db_cp[src] = cp_before
    /\ pc = "succeeded" =>
          /\ loaded = Len(new_records)
          /\ db_data = Written(Len(new_records))

\* A run over three fetched records has succeeded with two different
\* records written, a record between them having been left out.
C28_Witness ==
    /\ pc = "succeeded"
    /\ upstream.pinned
    /\ Len(Feed) = 3
    /\ Len(new_records) = 2
    /\ new_records[1] # new_records[2]
    /\ Unified(Feed[2]) \notin {new_records[1], new_records[2]}
    /\ db_cp[src].records_processed = 2

\* The rows a table holds under a record key (external_id).
RowsWithId(table, id) == {r \in BagToSet(table) : r.id = id}

\* The record most recently committed under the key.
LastLoaded(id) ==
    LET mine == {j \in 1..Len(merge_log) : merge_log[j].rec.id = id}
        last == CHOOSE j \in mine : \A o \in mine : o <= j
    IN merge_log[last].rec

RECURSIVE ValidFeed(_)
ValidFeed(n) ==
    IF n = 0 THEN <<>>
    ELSE IF Feed[n].mapping /\ Feed[n].fault = NoError
         THEN Append(ValidFeed(n - 1), Unified(Feed[n]))
         ELSE ValidFeed(n - 1)

\* C31: the filter uses the stored high-water-mark only when the
\* checkpoint's last status is success: a run that does not follow a
\* success filters on nothing, and the run that follows a failed run
\* accepts every valid record it has met, those at or below the
\* high-water-mark of the last successful run included.
C31_FilterOnlyAfterSuccess ==
    /\ (pc # "raised" /\ cp_before.last_status = "success") =>
          last_ingested = cp_before.last_ingested_timestamp
    /\ (pc # "raised" /\ cp_before.last_status # "success") => last_ingested = NoTs
    /\ (upstream.pinned /\ pc # "raised" /\ cp_before.last_status = "failure") =>
          IsSubseq(ValidFeed(idx), new_records)

\* The run after a failed run has succeeded with a record accepted whose
\* timestamp is below the high-water-mark an earlier successful run
\* recorded.
C31_Witness ==
    /\ pc = "succeeded"
    /\ upstream.pinned
    /\ cp_before.last_status = "failure"
    /\ hwm_hist[src] = 2
    /\ \E i \in 1..Len(new_records) : new_records[i].ts = 1
    /\ Len(new_records) = Len(ValidFeed(Len(Feed)))

\* normalize_func is reached and returns on record i of the pinned
\* upstream: detect_drift, if called, returned before it.
Normalized(i) ==
    /\ Feed[i].fault = NoError
    /\ processed_count = 0 => Feed[i].mapping

\* C32: a normalized record that carries no timestamp is never dropped by
\* the filter and never changes the running maximum: the iteration that
\* normalizes it appends it and counts it and leaves max_ts as it is; and
\* a successful run whose accepted records carry no timestamp (or that
\* accepted none) records the high-water-mark the checkpoint held before.
C32_NoTimestampAlwaysAccepted ==
    [][ /\ ( /\ pc = "transform"
              /\ upstream.pinned
              /\ Normalized(idx + 1)
              /\ Feed[idx + 1].ts = NoTs )
            => /\ new_records' = Append(new_records, Unified(Feed[idx + 1]))
               /\ processed_count' = processed_count + 1
               /\ max_ts' = max_ts
        /\ (pc' = "succeeded" /\ MaxTsOf(new_records') = NoTs)
            => db_cp'[src'].last_ingested_timestamp =
                   cp_before'.last_ingested_timestamp ]_vars

\* A run over a stored high-water-mark of 2 has succeeded having accepted
\* records without a timestamp only.
C32_Witness ==
    /\ pc = "succeeded"
    /\ upstream.pinned
    /\ cp_before.last_status = "success"
    /\ cp_before.last_ingested_timestamp = 2
    /\ Len(new_records) >= 1
    /\ MaxTsOf(new_records) = NoTs
    /\ StoredHwm = 2

\* C33: for the file-based source a missing or unreadable file is not a
\* run failure: short of a failure of the database, the run ends with
\* status success, records_processed 0 and the high-water-mark the
\* checkpoint held before.
C33_MissingFileIsEmptyFetch ==
    (Recorded /\ upstream.file \in {"missing", "unreadable"} /\ err # MsgDb) =>
        /\ pc = "succeeded"
        /\ total_records = 0
        /\ db_cp[src].last_status = "success"
        /\ db_cp[src].records_processed = 0
        /\ StoredHwm = cp_before.last_ingested_timestamp

====
